---- MODULE Spec2Model ----
(***************************************************************************)
(* A model of AdmiralSquidstatWrapper (src/src/admiral.py): the session    *)
(* object with its two result tables, the Qt event loop it blocks on, the  *)
(* calls it makes to the Squidstat driver and the callbacks the driver     *)
(* delivers to it.  The caller is a single Python thread that may call any *)
(* public method whenever it has control; the driver is the environment.   *)
(***************************************************************************)
EXTENDS Naturals, Sequences, FiniteSets

\* ------------------------------------------------------------------ bounds

\* Sample callbacks the driver delivers over the session.
MaxCallbacks == 2
\* Distinct timestamps the driver puts on samples.
MaxTime == 2
\* setup_* calls the caller makes over the session.
MaxSetups == 2
\* Argument tuples a caller passes to a setup_* method are shifted by 0..MaxShift.
MaxShift == 2

\* ------------------------------------------------------------------ values

\* Python's None, and a value that is present.
None == <<>>
Some(x) == <<x>>

\* self.channel
channel == 0

\* An empty pandas DataFrame, and pd.concat([table, frame]).
EmptyFrame == <<>>
concat(table, frame) == table \o frame

\* What uploadExperimentToChannel / startUploadedExperiment return: 0 or an error.
DriverErrors == {0, 1}

\* The timestamps of the samples the driver delivers: absent, or a time.
Timestamps == {None} \cup {Some(t) : t \in 1..MaxTime}

DCData ==
    {[timestamp |-> ts, workingElectrodeVoltage |-> 11, current |-> 12,
      temperature |-> 13] : ts \in Timestamps}

ACData ==
    {[timestamp |-> ts, frequency |-> 21, absoluteImpedance |-> 22,
      phaseAngle |-> 23, realImpedance |-> 24, imagImpedance |-> 25,
      totalHarmonicDistortion |-> 26, numberOfCycles |-> 27,
      workingElectrodeDCVoltage |-> 28, DCCurrent |-> 29,
      currentAmplitude |-> 30, voltageAmplitude |-> 31] : ts \in Timestamps}

\* The one-row frame handle_dc_data builds from a sample.
DCRow(data) ==
    [Timestamp |-> data.timestamp,
     WorkingElectrodeVoltage |-> data.workingElectrodeVoltage,
     WorkingElectrodeCurrent |-> data.current,
     Temperature |-> data.temperature]

\* The one-row frame handle_ac_data builds from a sample.
ACRow(data) ==
    [Timestamp |-> data.timestamp,
     Frequency |-> data.frequency,
     AbsoluteImpedance |-> data.absoluteImpedance,
     PhaseAngle |-> data.phaseAngle,
     RealImpedance |-> data.realImpedance,
     ImaginaryImpedance |-> data.imagImpedance,
     TotalHarmonicDistortion |-> data.totalHarmonicDistortion,
     NumberOfCycles |-> data.numberOfCycles,
     WorkingElectrodeDCVoltage |-> data.workingElectrodeDCVoltage,
     DCCurrent |-> data.DCCurrent,
     CurrentAmplitude |-> data.currentAmplitude,
     VoltageAmplitude |-> data.voltageAmplitude]

\* The elements that produce AC samples; every other element produces DC samples.
EISElements == {"AisEISPotentiostaticElement", "AisEISGalvanostaticElement"}
Domain(experiment) ==
    IF experiment[1].element.type \in EISElements THEN "AC" ELSE "DC"

\* ------------------------------------------------------------------ state

VARIABLES
    ac_data_list,      \* self.ac_data_list: the rows of the AC table
    dc_data_list,      \* self.dc_data_list: the rows of the DC table
    pc,                \* the caller: "idle" (has control) or "exec" (inside app.exec_())
    quitNow,           \* Qt's quit flag of the main thread: set by quit(), reset by exec_()
    uploaded,          \* the driver: the domain of the experiment the channel holds, or None
    running,           \* the driver: domains of the experiments started and not stopped
    calls,             \* the driver calls made by the last setup_*, in order
    lastCall,          \* the last setup_* call: method, arguments passed, whether it raised
    ret,               \* what the last get_data() returned: <<ac, dc>>
    retShared,         \* for each of the two: it is still the object the session's table is
    sinceClear,        \* 1: clear_data() just ran; 2: only get_data() ran since it; else 0
    acLog,             \* AC samples delivered since the AC table was last made empty
    dcLog,             \* DC samples delivered since the DC table was last made empty
    activeSinceClear,  \* domains of the experiments in flight since the tables were last empty
    pendingSetup,      \* a setup_* was called and no run_experiment() has returned since
    overlapped,        \* some setup_* was called while another was pending
    stoppedInExec,     \* handle_experiment_stopped ran since app.exec_() was entered
    nCallbacks,        \* sample callbacks delivered so far
    nSetups            \* setup_* calls made so far

tables == <<ac_data_list, dc_data_list>>
qt == <<pc, quitNow>>
driver == <<uploaded, running>>
submitted == <<calls, lastCall>>
logs == <<acLog, dcLog>>
discipline == <<pendingSetup, overlapped, stoppedInExec>>
counts == <<nCallbacks, nSetups>>
vars == <<ac_data_list, dc_data_list, pc, quitNow, uploaded, running, calls,
          lastCall, ret, retShared, sinceClear, acLog, dcLog, activeSinceClear,
          pendingSetup, overlapped, stoppedInExec, nCallbacks, nSetups>>

Init ==
    /\ ac_data_list = EmptyFrame
    /\ dc_data_list = EmptyFrame
    /\ pc = "idle"
    /\ quitNow = FALSE
    /\ uploaded = None
    /\ running = <<>>
    /\ calls = <<>>
    /\ lastCall = [method |-> "__init__", passed |-> <<>>, raised |-> FALSE]
    /\ ret = <<None, None>>
    /\ retShared = <<FALSE, FALSE>>
    /\ sinceClear = 0
    /\ acLog = <<>>
    /\ dcLog = <<>>
    /\ activeSinceClear = {}
    /\ pendingSetup = FALSE
    /\ overlapped = FALSE
    /\ stoppedInExec = FALSE
    /\ nCallbacks = 0
    /\ nSetups = 0

\* ------------------------------------------------------------------ the caller

\* get_data(): the pair returned to the caller.
get_data_result(ac, dc) ==
    IF ac = EmptyFrame THEN <<None, Some(dc)>>
    ELSE IF dc = EmptyFrame THEN <<Some(ac), None>>
    ELSE <<Some(ac), Some(dc)>>

get_data ==
    /\ pc = "idle"
    /\ ret' = get_data_result(ac_data_list, dc_data_list)
    /\ retShared' = <<ret'[1] # None, ret'[2] # None>>
    /\ sinceClear' = IF sinceClear = 0 THEN 0 ELSE 2
    /\ UNCHANGED <<tables, qt, driver, submitted, logs, activeSinceClear,
                   discipline, counts>>

\* clear_data() that forgets the DC table.
clear_data_ac_only ==
    /\ pc = "idle"
    /\ ac_data_list' = EmptyFrame
    /\ dc_data_list' = dc_data_list
    /\ sinceClear' = 1
    /\ acLog' = <<>>
    /\ dcLog' = dcLog
    /\ activeSinceClear' = {running[i] : i \in 1..Len(running)}
    /\ retShared' = <<FALSE, retShared[2]>>
    /\ UNCHANGED <<qt, driver, submitted, ret, discipline, counts>>

clear_data ==
    /\ pc = "idle"
    /\ ac_data_list' = EmptyFrame
    /\ dc_data_list' = EmptyFrame
    /\ sinceClear' = 1
    /\ acLog' = <<>>
    /\ dcLog' = <<>>
    /\ activeSinceClear' = {running[i] : i \in 1..Len(running)}
    /\ retShared' = <<FALSE, FALSE>>
    /\ UNCHANGED <<qt, driver, submitted, ret, discipline, counts>>

\* close_experiment() -> __del__(): app.quit()
close_experiment ==
    /\ pc = "idle"
    /\ quitNow' = TRUE
    /\ sinceClear' = 0
    /\ UNCHANGED <<tables, pc, driver, submitted, ret, retShared, logs, activeSinceClear,
                   discipline, counts>>

\* run_experiment() on an event loop that keeps a quit requested before it started.
run_experiment_stale_quit ==
    /\ pc = "idle"
    /\ pc' = "exec"
    /\ quitNow' = quitNow
    /\ sinceClear' = 0
    /\ stoppedInExec' = FALSE
    /\ UNCHANGED <<tables, driver, submitted, ret, retShared, logs, activeSinceClear,
                   pendingSetup, overlapped, counts>>

\* run_experiment(): app.exec_() resets the quit flag and enters the event loop.
run_experiment ==
    /\ pc = "idle"
    /\ pc' = "exec"
    /\ quitNow' = FALSE
    /\ sinceClear' = 0
    /\ stoppedInExec' = FALSE
    /\ UNCHANGED <<tables, driver, submitted, ret, retShared, logs, activeSinceClear,
                   pendingSetup, overlapped, counts>>

\* An event loop that returns without waiting for quit().
exec_return_no_wait ==
    /\ pc = "exec"
    /\ pc' = "idle"
    /\ pendingSetup' = FALSE
    /\ stoppedInExec' = FALSE
    /\ UNCHANGED <<tables, quitNow, driver, submitted, ret, retShared, sinceClear, logs,
                   activeSinceClear, overlapped, counts>>

\* app.exec_() returns once quit() was called while the loop ran.
exec_return ==
    /\ pc = "exec"
    /\ quitNow
    /\ pc' = "idle"
    /\ pendingSetup' = FALSE
    /\ stoppedInExec' = FALSE
    /\ UNCHANGED <<tables, quitNow, driver, submitted, ret, retShared, sinceClear, logs,
                   activeSinceClear, overlapped, counts>>

\* ------------------------------------------------------------------ callbacks

\* handle_dc_data that concatenates onto the AC table.
handle_dc_data_into_ac(ch, data) ==
    /\ ac_data_list' = IF data.timestamp # None
                       THEN concat(ac_data_list, <<DCRow(data)>>)
                       ELSE ac_data_list
    /\ dc_data_list' = dc_data_list
    /\ dcLog' = Append(dcLog, data)
    /\ acLog' = acLog
    /\ sinceClear' = 0
    /\ nCallbacks' = nCallbacks + 1
    /\ retShared' = <<retShared[1] /\ data.timestamp = None, retShared[2]>>
    /\ UNCHANGED <<qt, submitted, ret, activeSinceClear, discipline, nSetups>>

\* handle_dc_data that keeps only the new row.
handle_dc_data_replace(ch, data) ==
    /\ dc_data_list' = IF data.timestamp # None
                       THEN <<DCRow(data)>>
                       ELSE dc_data_list
    /\ ac_data_list' = ac_data_list
    /\ dcLog' = Append(dcLog, data)
    /\ acLog' = acLog
    /\ sinceClear' = 0
    /\ nCallbacks' = nCallbacks + 1
    /\ retShared' = <<retShared[1], retShared[2] /\ data.timestamp = None>>
    /\ UNCHANGED <<qt, submitted, ret, activeSinceClear, discipline, nSetups>>

\* handle_dc_data that adds the row to the table object in place, so that a
\* caller still holding that object sees the row.
handle_dc_data_in_place(ch, data) ==
    /\ dc_data_list' = IF data.timestamp # None
                       THEN concat(dc_data_list, <<DCRow(data)>>)
                       ELSE dc_data_list
    /\ ac_data_list' = ac_data_list
    /\ ret' = IF retShared[2] THEN <<ret[1], Some(dc_data_list')>> ELSE ret
    /\ retShared' = retShared
    /\ dcLog' = Append(dcLog, data)
    /\ acLog' = acLog
    /\ sinceClear' = 0
    /\ nCallbacks' = nCallbacks + 1
    /\ UNCHANGED <<qt, submitted, activeSinceClear, discipline, nSetups>>

handle_dc_data(ch, data) ==
    /\ dc_data_list' = IF data.timestamp # None
                       THEN concat(dc_data_list, <<DCRow(data)>>)
                       ELSE dc_data_list
    /\ ac_data_list' = ac_data_list
    /\ dcLog' = Append(dcLog, data)
    /\ acLog' = acLog
    /\ sinceClear' = 0
    /\ nCallbacks' = nCallbacks + 1
    /\ retShared' = <<retShared[1], retShared[2] /\ data.timestamp = None>>
    /\ UNCHANGED <<qt, submitted, ret, activeSinceClear, discipline, nSetups>>

\* handle_ac_data without the test of the timestamp.
handle_ac_data_no_guard(ch, data) ==
    /\ ac_data_list' = concat(ac_data_list, <<ACRow(data)>>)
    /\ dc_data_list' = dc_data_list
    /\ acLog' = Append(acLog, data)
    /\ dcLog' = dcLog
    /\ sinceClear' = 0
    /\ nCallbacks' = nCallbacks + 1
    /\ retShared' = <<FALSE, retShared[2]>>
    /\ UNCHANGED <<qt, submitted, ret, activeSinceClear, discipline, nSetups>>

\* handle_ac_data that puts the new row first.
handle_ac_data_prepend(ch, data) ==
    /\ ac_data_list' = IF data.timestamp # None
                       THEN concat(<<ACRow(data)>>, ac_data_list)
                       ELSE ac_data_list
    /\ dc_data_list' = dc_data_list
    /\ acLog' = Append(acLog, data)
    /\ dcLog' = dcLog
    /\ sinceClear' = 0
    /\ nCallbacks' = nCallbacks + 1
    /\ retShared' = <<retShared[1] /\ data.timestamp = None, retShared[2]>>
    /\ UNCHANGED <<qt, submitted, ret, activeSinceClear, discipline, nSetups>>

handle_ac_data(ch, data) ==
    /\ ac_data_list' = IF data.timestamp # None
                       THEN concat(ac_data_list, <<ACRow(data)>>)
                       ELSE ac_data_list
    /\ dc_data_list' = dc_data_list
    /\ acLog' = Append(acLog, data)
    /\ dcLog' = dcLog
    /\ sinceClear' = 0
    /\ nCallbacks' = nCallbacks + 1
    /\ retShared' = <<retShared[1] /\ data.timestamp = None, retShared[2]>>
    /\ UNCHANGED <<qt, submitted, ret, activeSinceClear, discipline, nSetups>>

\* handle_experiment_stopped(): app.quit() sets the quit flag; a running event
\* loop leaves, and a later app.exec_() starts by resetting the flag.
handle_experiment_stopped(ch) ==
    /\ quitNow' = TRUE
    /\ sinceClear' = 0
    /\ stoppedInExec' = (pc = "exec")
    /\ UNCHANGED <<tables, pc, submitted, ret, retShared, logs, activeSinceClear, pendingSetup,
                   overlapped, counts>>

\* ------------------------------------------------------------------ the driver's signals

RemoveAt(s, i) == SubSeq(s, 1, i - 1) \o SubSeq(s, i + 1, Len(s))

\* activeDCDataReady: a running time-domain experiment produced a sample.
activeDCDataReady(data) ==
    /\ \E i \in 1..Len(running) : running[i] = "DC"
    /\ nCallbacks < MaxCallbacks
    /\ handle_dc_data(channel, data)
    /\ UNCHANGED driver

\* activeACDataReady: a running EIS experiment produced a sample.
activeACDataReady(data) ==
    /\ \E i \in 1..Len(running) : running[i] = "AC"
    /\ nCallbacks < MaxCallbacks
    /\ handle_ac_data(channel, data)
    /\ UNCHANGED driver

\* experimentStopped: one of the running experiments ended.
experimentStopped(i) ==
    /\ running' = RemoveAt(running, i)
    /\ uploaded' = uploaded
    /\ handle_experiment_stopped(channel)

\* ------------------------------------------------------------------ submitting

\* AisExperiment() with one appendElement(element, count): count is None when
\* appendElement is called with the element alone.
AisExperiment(type, args, count) ==
    <<[element |-> [type |-> type, args |-> args], count |-> count]>>

\* What the channel holds after uploadExperimentToChannel returned `error`: of the
\* held experiment the driver's later behaviour depends on its domain only.
uploadExperimentToChannel(held, experiment, error) ==
    IF error = 0 THEN Some(Domain(experiment)) ELSE held

\* upload_experiment() that uploads to the channel after self.channel.
upload_experiment_next_channel(experiment, error) ==
    [op |-> "uploadExperimentToChannel", channel |-> channel + 1,
     experiment |-> experiment, error |-> error, inFlight |-> Len(running)]

\* upload_experiment(): the driver call it makes; the error is printed.
upload_experiment(experiment, error) ==
    [op |-> "uploadExperimentToChannel", channel |-> channel,
     experiment |-> experiment, error |-> error, inFlight |-> Len(running)]

\* start_experiment(): the driver call it makes; the error is printed.
start_experiment(error) ==
    [op |-> "startUploadedExperiment", channel |-> channel,
     experiment |-> None, error |-> error, inFlight |-> Len(running)]

\* The body of every setup_*, called with `passed` (the arguments in the order of
\* the Python signature): build the experiment from the element `type(args)`
\* appended with `count`, upload it, start it, return.  uerr and serr are the
\* driver's answers to the upload and to the start.
submit(method, passed, type, args, count) ==
    \E uerr \in DriverErrors, serr \in DriverErrors :
        LET experiment == AisExperiment(type, args, count)
            held == uploadExperimentToChannel(uploaded, experiment, uerr)
        IN  /\ pc = "idle"
            /\ nSetups < MaxSetups
            /\ serr = 0 => held # None
            /\ uploaded' = held
            /\ running' = IF serr = 0 THEN Append(running, held[1])
                          ELSE running
            /\ calls' = <<upload_experiment(experiment, uerr), start_experiment(serr)>>
            /\ lastCall' = [method |-> method, passed |-> passed, raised |-> FALSE]
            /\ activeSinceClear' = IF serr = 0
                                   THEN activeSinceClear \cup {held[1]}
                                   ELSE activeSinceClear
            /\ sinceClear' = 0
            /\ overlapped' = (overlapped \/ pendingSetup)
            /\ pendingSetup' = TRUE
            /\ stoppedInExec' = stoppedInExec
            /\ nSetups' = nSetups + 1
            /\ UNCHANGED <<tables, qt, ret, retShared, logs, nCallbacks>>

\* ------------------------------------------------------------------ the setup_* methods

\* Each takes its arguments in the order of the Python signature and hands them to
\* the element's constructor; the repeat count, where there is one, to appendElement.

setup_EIS_potentiostatic(start_frequency, end_frequency, points_per_decade, voltage_bias, voltage_amplitude, number_of_runs) ==
    submit("setup_EIS_potentiostatic", <<start_frequency, end_frequency, points_per_decade, voltage_bias, voltage_amplitude, number_of_runs>>,
           "AisEISPotentiostaticElement",
           <<start_frequency, end_frequency, points_per_decade, voltage_bias, voltage_amplitude>>,
           Some(number_of_runs))

setup_cyclic_voltammetry(startVoltage, firstVoltageLimit, secondVoltageLimit, endVoltage, scanRate, samplingInterval, cycles) ==
    submit("setup_cyclic_voltammetry", <<startVoltage, firstVoltageLimit, secondVoltageLimit, endVoltage, scanRate, samplingInterval, cycles>>,
           "AisCyclicVoltammetryElement",
           <<startVoltage, firstVoltageLimit, secondVoltageLimit, endVoltage, scanRate, samplingInterval>>,
           Some(cycles))

setup_constant_current(holdAtCurrent, samplingInterval, duration) ==
    submit("setup_constant_current", <<holdAtCurrent, samplingInterval, duration>>,
           "AisConstantCurrentElement",
           <<holdAtCurrent, samplingInterval, duration>>,
           None)

setup_constant_potential(holdAtVoltage, samplingInterval, duration) ==
    submit("setup_constant_potential", <<holdAtVoltage, samplingInterval, duration>>,
           "AisConstantPotElement",
           <<holdAtVoltage, samplingInterval, duration>>,
           None)

\* setup_constant_power that hands duration and samplingInterval over swapped.
setup_constant_power_swapped(isCharge, powerVal, duration, samplingInterval) ==
    submit("setup_constant_power", <<isCharge, powerVal, duration, samplingInterval>>,
           "AisConstantPowerElement",
           <<isCharge, powerVal, samplingInterval, duration>>,
           None)

setup_constant_power(isCharge, powerVal, duration, samplingInterval) ==
    submit("setup_constant_power", <<isCharge, powerVal, duration, samplingInterval>>,
           "AisConstantPowerElement",
           <<isCharge, powerVal, duration, samplingInterval>>,
           None)

setup_constant_resistance(resistanceVal, duration, samplingInterval) ==
    submit("setup_constant_resistance", <<resistanceVal, duration, samplingInterval>>,
           "AisConstantResistanceElement",
           <<resistanceVal, duration, samplingInterval>>,
           None)

setup_DC_current_sweep(startCurrent, endCurrent, scanRate, samplingInterval) ==
    submit("setup_DC_current_sweep", <<startCurrent, endCurrent, scanRate, samplingInterval>>,
           "AisDCCurrentSweepElement",
           <<startCurrent, endCurrent, scanRate, samplingInterval>>,
           None)

setup_DC_potential_sweep(startPotential, endPotential, scanRate, samplingInterval) ==
    submit("setup_DC_potential_sweep", <<startPotential, endPotential, scanRate, samplingInterval>>,
           "AisDCPotentialSweepElement",
           <<startPotential, endPotential, scanRate, samplingInterval>>,
           None)

setup_diff_pulse_voltammetry(startPotential, endPotential, potentialStep, pulseHeight, pulseWidth, pulsePeriod) ==
    submit("setup_diff_pulse_voltammetry", <<startPotential, endPotential, potentialStep, pulseHeight, pulseWidth, pulsePeriod>>,
           "AisDiffPulseVoltammetryElement",
           <<startPotential, endPotential, potentialStep, pulseHeight, pulseWidth, pulsePeriod>>,
           None)

setup_normal_pulse_voltammetry(startPotential, endPotential, potentialStep, pulseWidth, pulsePeriod) ==
    submit("setup_normal_pulse_voltammetry", <<startPotential, endPotential, potentialStep, pulseWidth, pulsePeriod>>,
           "AisNormalPulseVoltammetryElement",
           <<startPotential, endPotential, potentialStep, pulseWidth, pulsePeriod>>,
           None)

setup_square_wave(startPotential, firstVoltageLimit, secondVoltageLimit, endVoltage, scanRate, samplingInterval, cycles) ==
    submit("setup_square_wave", <<startPotential, firstVoltageLimit, secondVoltageLimit, endVoltage, scanRate, samplingInterval, cycles>>,
           "AisSquareWaveVoltammetryElement",
           <<startPotential, firstVoltageLimit, secondVoltageLimit, endVoltage, scanRate, samplingInterval>>,
           Some(cycles))

setup_EIS_Galvanostatic(start_frequency, end_frequency, points_per_decade, current_bias, current_amplitude, number_of_runs) ==
    submit("setup_EIS_Galvanostatic", <<start_frequency, end_frequency, points_per_decade, current_bias, current_amplitude, number_of_runs>>,
           "AisEISGalvanostaticElement",
           <<start_frequency, end_frequency, points_per_decade, current_bias, current_amplitude>>,
           Some(number_of_runs))

setup_OCP(duration, samplingInterval) ==
    submit("setup_OCP", <<duration, samplingInterval>>,
           "AisOpenCircuitElement",
           <<duration, samplingInterval>>,
           None)

\* ------------------------------------------------------------------ specifications

\* The argument tuples of length n a caller passes, for shifts 0..b: all positions
\* distinct (1+k, 2+k, ..., n+k), and all positions equal (k, k, ..., k).
ArgTuples(n, b) ==
    {[i \in 1..n |-> i + k] : k \in 0..b} \cup {[i \in 1..n |-> k] : k \in 1..b}

\* Any setup_* call with its arguments drawn from the tuples of shifts 0..b.
Setup(b) ==
    \/ \E a \in ArgTuples(6, b) : setup_EIS_potentiostatic(a[1], a[2], a[3], a[4], a[5], a[6])
    \/ \E a \in ArgTuples(7, b) : setup_cyclic_voltammetry(a[1], a[2], a[3], a[4], a[5], a[6], a[7])
    \/ \E a \in ArgTuples(3, b) : setup_constant_current(a[1], a[2], a[3])
    \/ \E a \in ArgTuples(3, b) : setup_constant_potential(a[1], a[2], a[3])
    \/ \E a \in ArgTuples(4, b) : setup_constant_power(a[1], a[2], a[3], a[4])
    \/ \E a \in ArgTuples(3, b) : setup_constant_resistance(a[1], a[2], a[3])
    \/ \E a \in ArgTuples(4, b) : setup_DC_current_sweep(a[1], a[2], a[3], a[4])
    \/ \E a \in ArgTuples(4, b) : setup_DC_potential_sweep(a[1], a[2], a[3], a[4])
    \/ \E a \in ArgTuples(6, b) : setup_diff_pulse_voltammetry(a[1], a[2], a[3], a[4], a[5], a[6])
    \/ \E a \in ArgTuples(5, b) : setup_normal_pulse_voltammetry(a[1], a[2], a[3], a[4], a[5])
    \/ \E a \in ArgTuples(7, b) : setup_square_wave(a[1], a[2], a[3], a[4], a[5], a[6], a[7])
    \/ \E a \in ArgTuples(6, b) : setup_EIS_Galvanostatic(a[1], a[2], a[3], a[4], a[5], a[6])
    \/ \E a \in ArgTuples(2, b) : setup_OCP(a[1], a[2])

\* The three experiments of example/example1.py, with one argument tuple each.
SetupExample ==
    \/ \E a \in ArgTuples(6, 0) : setup_EIS_potentiostatic(a[1], a[2], a[3], a[4], a[5], a[6])
    \/ \E a \in ArgTuples(7, 0) : setup_cyclic_voltammetry(a[1], a[2], a[3], a[4], a[5], a[6], a[7])
    \/ \E a \in ArgTuples(3, 0) : setup_constant_current(a[1], a[2], a[3])

Samples ==
    \/ \E data \in DCData : activeDCDataReady(data)
    \/ \E data \in ACData : activeACDataReady(data)

Stopped == \E i \in 1..Len(running) : experimentStopped(i)

\* The session of the example: its three experiments, every other method, and the
\* driver's signals.
Next ==
    \/ get_data
    \/ clear_data
    \/ close_experiment
    \/ run_experiment
    \/ exec_return
    \/ SetupExample
    \/ Samples
    \/ Stopped

Spec == Init /\ [][Next]_vars

\* Submitting and running: every setup_* method with one argument tuple, the event
\* loop, and a driver that signals the end of experiments.
NextRun ==
    \/ close_experiment
    \/ run_experiment
    \/ exec_return
    \/ Setup(0)
    \/ Stopped

SpecRun == Init /\ [][NextRun]_vars

\* The setup_* methods over all argument tuples, against a driver that signals the
\* end of experiments.
NextParams ==
    \/ Setup(MaxShift)
    \/ Stopped

SpecParams == Init /\ [][NextParams]_vars

\* ------------------------------------------------------------------ properties

IsPrefix(s, t) == Len(s) <= Len(t) /\ SubSeq(t, 1, Len(s)) = s

\* The samples of a log that carry a timestamp, in order.
Stamped(log) == SelectSeq(log, LAMBDA d : d.timestamp # None)

ACRowsOf(log) == [i \in 1..Len(log) |-> ACRow(log[i])]
DCRowsOf(log) == [i \in 1..Len(log) |-> DCRow(log[i])]

\* A value returned by get_data() that holds no row: None or an empty table.
NoRows(r) == r = None \/ r = Some(EmptyFrame)

\* The "no data" indicator for an empty table, the table otherwise.
TableOrNone(table) == IF table = EmptyFrame THEN None ELSE Some(table)

\* The domain of the experiment the last setup_* built.
LastDomain == Domain(calls[1].experiment)

\* C1: get_data() returns, for the AC table and independently for the DC table,
\* the table when it has at least one row and None when it is empty.
C1_GetDataNoneWhenEmpty ==
    [][get_data => /\ ret'[1] = TableOrNone(ac_data_list)
                   /\ ret'[2] = TableOrNone(dc_data_list)]_vars

\* C2 (as claimed): the number of rows of each table equals the number of sample
\* callbacks delivered for it since the table was empty.
C2_RowCountEqualsCallbacks ==
    /\ Len(ac_data_list) = Len(acLog)
    /\ Len(dc_data_list) = Len(dcLog)

\* C2 (amended): each table holds exactly one row per delivered sample that
\* carries a timestamp, in the order of delivery; a sample without a timestamp
\* adds no row.
C2_RowsAreStampedCallbacksInOrder ==
    /\ ac_data_list = ACRowsOf(Stamped(acLog))
    /\ dc_data_list = DCRowsOf(Stamped(dcLog))

C2_Witness ==
    /\ Len(acLog) = 2
    /\ Len(ac_data_list) = 2
    /\ ac_data_list[1].Timestamp # ac_data_list[2].Timestamp

\* C3: after clear_data() both tables are empty, and a get_data() issued directly
\* after it reports no row for the AC table and no row for the DC table.
C3_ClearThenGetReportsEmpty ==
    /\ sinceClear # 0 => ac_data_list = EmptyFrame /\ dc_data_list = EmptyFrame
    /\ sinceClear = 2 => NoRows(ret[1]) /\ NoRows(ret[2])

C3_Witness ==
    /\ sinceClear = 2
    /\ nCallbacks > 0
    /\ running # <<>>

\* C4 (as claimed): once run_experiment() has returned after a DC-only setup
\* during which a sample was delivered, the AC table is empty and the DC table is
\* not; once it has returned after an EIS setup, the DC table is empty.
C4_OtherTableEmptyAfterRun ==
    (pc = "idle" /\ ~pendingSetup /\ calls # <<>>) =>
        /\ (LastDomain = "DC" /\ dcLog # <<>>) =>
               ac_data_list = EmptyFrame /\ dc_data_list # EmptyFrame
        /\ LastDomain = "AC" => dc_data_list = EmptyFrame

\* C4 (amended): a table gets rows only from experiments of its own domain: while
\* no EIS experiment has been in flight since the tables were last empty the AC
\* table is empty, while no DC-only experiment has been in flight the DC table is
\* empty, and a table is non-empty as soon as a sample carrying a timestamp was
\* delivered for it.
C4_RunPopulatesOnlyItsTable ==
    /\ "AC" \notin activeSinceClear => ac_data_list = EmptyFrame
    /\ "DC" \notin activeSinceClear => dc_data_list = EmptyFrame
    /\ Stamped(dcLog) # <<>> => dc_data_list # EmptyFrame
    /\ Stamped(acLog) # <<>> => ac_data_list # EmptyFrame

C4_Witness ==
    /\ pc = "idle"
    /\ ~pendingSetup
    /\ activeSinceClear = {"DC"}
    /\ dc_data_list # EmptyFrame
    /\ ac_data_list = EmptyFrame

\* C5 (as claimed): the caller has control only while no started experiment is
\* still to be signalled stopped.
C5_SetupBlocksUntilStopped == pc = "idle" => running = <<>>

\* C5 (amended): the blocking call is run_experiment(): it returns only after
\* handle_experiment_stopped has run while the event loop was running.
C5_RunBlocksUntilStopped ==
    [][(pc = "exec" /\ pc' = "idle") => stoppedInExec]_vars

C5_Witness ==
    /\ pc = "idle"
    /\ nSetups > 0
    /\ ~pendingSetup
    /\ running = <<>>
    /\ calls[2].error = 0

\* C6 (as claimed): at most one experiment is in flight, and no upload or start is
\* issued while one is.
C6_AtMostOneInFlight ==
    /\ Len(running) <= 1
    /\ \A i \in 1..Len(calls) : calls[i].inFlight = 0

\* C6 (amended): as long as the caller has let run_experiment() return after each
\* setup_* before calling the next setup_*, at most one experiment is in flight
\* and every upload and start was issued with none in flight.
C6_OneInFlightWhenRunBetweenSetups ==
    ~overlapped =>
        /\ Len(running) <= 1
        /\ \A i \in 1..Len(calls) : calls[i].inFlight = 0

C6_Witness ==
    /\ ~overlapped
    /\ nSetups = 2
    /\ Len(running) = 1

\* C7: a driver error on upload or start is propagated to the caller of setup_*,
\* nothing is retried, and after a failed upload no start is issued.
C7_DriverErrorPropagated ==
    /\ Len(calls) <= 2
    /\ \A i \in 1..Len(calls) : calls[i].error # 0 => lastCall.raised
    /\ (calls # <<>> /\ calls[1].error # 0) => Len(calls) = 1

\* The element type each setup_* method builds, and the methods with a repeat count.
ElementOf(method) ==
    CASE method = "setup_EIS_potentiostatic" -> "AisEISPotentiostaticElement"
      [] method = "setup_cyclic_voltammetry" -> "AisCyclicVoltammetryElement"
      [] method = "setup_constant_current" -> "AisConstantCurrentElement"
      [] method = "setup_constant_potential" -> "AisConstantPotElement"
      [] method = "setup_constant_power" -> "AisConstantPowerElement"
      [] method = "setup_constant_resistance" -> "AisConstantResistanceElement"
      [] method = "setup_DC_current_sweep" -> "AisDCCurrentSweepElement"
      [] method = "setup_DC_potential_sweep" -> "AisDCPotentialSweepElement"
      [] method = "setup_diff_pulse_voltammetry" -> "AisDiffPulseVoltammetryElement"
      [] method = "setup_normal_pulse_voltammetry" -> "AisNormalPulseVoltammetryElement"
      [] method = "setup_square_wave" -> "AisSquareWaveVoltammetryElement"
      [] method = "setup_EIS_Galvanostatic" -> "AisEISGalvanostaticElement"
      [] method = "setup_OCP" -> "AisOpenCircuitElement"

WithRepeat ==
    {"setup_EIS_potentiostatic", "setup_cyclic_voltammetry", "setup_square_wave",
     "setup_EIS_Galvanostatic"}

\* C8: the element handed to the driver carries the values passed to setup_*,
\* each in the position it was passed in, and the repeat count passed (where the
\* method has one) is the count given to appendElement.
C8_ArgumentsForwardedUnchanged ==
    calls # <<>> =>
        LET passed == lastCall.passed
            entry == calls[1].experiment[1]
        IN  /\ Len(calls[1].experiment) = 1
            /\ entry.element.type = ElementOf(lastCall.method)
            /\ IF lastCall.method \in WithRepeat
               THEN /\ entry.element.args = SubSeq(passed, 1, Len(passed) - 1)
                    /\ entry.count = Some(passed[Len(passed)])
               ELSE /\ entry.element.args = passed
                    /\ entry.count = None

C8_Witness ==
    /\ lastCall.method = "setup_constant_power"
    /\ lastCall.passed = <<2, 3, 4, 5>>
    /\ calls[1].error = 0
    /\ calls[2].error = 0

\* C9: outside clear_data() every step leaves the rows a table holds in place and
\* in order, and adds rows only at the end.
C9_AppendOnlyBetweenClears ==
    [][clear_data \/ (/\ IsPrefix(ac_data_list, ac_data_list')
                      /\ IsPrefix(dc_data_list, dc_data_list'))]_vars

C9_Witness ==
    /\ Len(dc_data_list) = 2
    /\ dc_data_list[1].Timestamp # dc_data_list[2].Timestamp
    /\ nSetups = 2
    /\ ~overlapped
    /\ ~pendingSetup
    /\ pc = "idle"

\* C10: when the experiment started by the last setup_* has been signalled
\* stopped and the caller is in the run_experiment() made after that setup_*, the
\* event loop has its quit request, so run_experiment() returns.
C10_RunReturnsOnceStopped ==
    (/\ pc = "exec"
     /\ pendingSetup
     /\ calls # <<>>
     /\ calls[2].error = 0
     /\ running = <<>>) => quitNow

\* C11: every setup_* builds one experiment of one element, issues exactly one
\* upload of it and then exactly one start, in that order, and every upload and
\* start of the session is issued on channel 0.
C11_UploadThenStartOnChannelZero ==
    calls # <<>> =>
        /\ Len(calls) = 2
        /\ calls[1].op = "uploadExperimentToChannel"
        /\ Len(calls[1].experiment) = 1
        /\ calls[1].experiment[1].element.type = ElementOf(lastCall.method)
        /\ calls[2].op = "startUploadedExperiment"
        /\ calls[1].channel = 0
        /\ calls[2].channel = 0

C11_Witness ==
    /\ nSetups = 2
    /\ lastCall.method = "setup_OCP"
    /\ Len(calls) = 2
    /\ calls[1].error = 0
    /\ calls[2].error = 0

\* C12: a sample callback without a timestamp leaves both tables as they were,
\* and a sample callback with a timestamp leaves the other domain's table as it
\* was.
C12_UnstampedDroppedOtherTableUntouched ==
    [][/\ \A data \in DCData :
              dcLog' = Append(dcLog, data) =>
                  /\ ac_data_list' = ac_data_list
                  /\ data.timestamp = None => dc_data_list' = dc_data_list
       /\ \A data \in ACData :
              acLog' = Append(acLog, data) =>
                  /\ dc_data_list' = dc_data_list
                  /\ data.timestamp = None => ac_data_list' = ac_data_list]_vars

C12_Witness ==
    /\ Len(acLog) = 2
    /\ acLog[1].timestamp # None
    /\ acLog[2].timestamp = None
    /\ Len(ac_data_list) = 1
    /\ dc_data_list = EmptyFrame

\* C13: a value returned by get_data() keeps its rows whatever happens afterwards:
\* only get_data() changes what the caller got, a step that changes the rows of
\* a session table puts them in an object the caller does not hold, and
\* get_data() and close_experiment() leave both session tables as they were.
C13_ReturnedTablesAreStable ==
    [][/\ get_data \/ ret' = ret
       /\ ac_data_list' # ac_data_list => ~retShared'[1]
       /\ dc_data_list' # dc_data_list => ~retShared'[2]
       /\ \A i \in 1..2 : retShared'[i] => ret'[i] = Some(tables'[i])
       /\ (get_data \/ close_experiment) => tables' = tables]_vars

C13_Witness ==
    /\ ret[2] # None
    /\ Len(ret[2][1]) = 1
    /\ ~retShared[2]
    /\ dc_data_list = EmptyFrame
    /\ sinceClear = 0
    /\ quitNow
    /\ pc = "idle"

====
